---- MODULE Spec2Model ----
(***************************************************************************)
(* Model of the two index builders of the transcripts site:                *)
(*   build_indexes.py  (reads html/*.html, writes html/index.html,         *)
(*                      html/page/N/index.html, html/newest/index.html,    *)
(*                      html/sitemap.xml)                                  *)
(*   makeindex.py      (reads html/*.html, writes html/index.html,         *)
(*                      html/page/N/index.html, html/sitemap.xml)          *)
(*                                                                         *)
(* Text is modelled as a sequence of tokens: a token is a whitespace       *)
(* character (" " or "\n"), the separator "|", a markup tag "<b>", or a    *)
(* word.  The result of a regular-expression search is modelled as a       *)
(* sequence holding the captured group: <<>> when the search finds         *)
(* nothing, <<g>> when it finds the group g.                               *)
(***************************************************************************)
EXTENDS Integers, Sequences, FiniteSets, TLC

\* ------------------------------------------------------------------------
\* Bounds of the model
\* ------------------------------------------------------------------------

\* Page size of build_indexes (PER_PAGE = 24 in the source), scaled down.
PerPageB == 2

\* Page size of makeindex (PER_PAGE = 50 in the source), scaled down.
PerPageM == 2

\* Number of successive runs of a builder over the same html/ directory.
MaxRuns == 2

\* Longest <title> content enumerated for extract_meta.
MaxTitleLen == 3

\* Largest total page count enumerated for render_index_page.
MaxPages == 8

\* ------------------------------------------------------------------------
\* Text helpers (Python str methods, on token sequences)
\* ------------------------------------------------------------------------

Whitespace == {" ", "\n"}

Sep == "|"

\* s.split("|")[0]: the text before the first separator (all of s if none).
RECURSIVE SplitFirst(_)
SplitFirst(s) ==
    IF s = <<>> \/ Head(s) = Sep THEN <<>>
    ELSE <<Head(s)>> \o SplitFirst(Tail(s))

RECURSIVE LStrip(_)
LStrip(s) ==
    IF s # <<>> /\ Head(s) \in Whitespace THEN LStrip(Tail(s)) ELSE s

RECURSIVE RStrip(_)
RStrip(s) ==
    IF s # <<>> /\ s[Len(s)] \in Whitespace
    THEN RStrip(SubSeq(s, 1, Len(s) - 1))
    ELSE s

\* s.strip()
Strip(s) == RStrip(LStrip(s))

\* s.replace("Z", "+00:00")
RECURSIVE ReplaceZ(_)
ReplaceZ(s) ==
    IF s = <<>> THEN <<>>
    ELSE <<IF Head(s) = "Z" THEN "+00:00" ELSE Head(s)>> \o ReplaceZ(Tail(s))

\* s[:10] of a date string: the calendar-date token (the first ten
\* characters of an ISO instant), or the whole text when it is shorter.
DatePart(s) == IF s = <<>> THEN <<>> ELSE <<Head(s)>>

\* re.search result helpers
Matched(m) == m # <<>>
Group1(m) == m[1]

\* ------------------------------------------------------------------------
\* Dates
\* ------------------------------------------------------------------------

\* The calendar dates the model knows, with their POSIX timestamp at
\* midnight UTC.  A date string is <<date>> (naive), <<date, "Z">> or
\* <<date, "+00:00">>; anything else does not parse.
IsoDates == {"1969-12-31", "1970-01-01", "2024-01-01", "2024-06-01"}

EpochSeconds(d) ==
    CASE d = "1969-12-31" -> -86400
      [] d = "1970-01-01" -> 0
      [] d = "2024-01-01" -> 1704067200
      [] d = "2024-06-01" -> 1717200000

\* datetime.fromisoformat accepts the text
IsoParses(s) ==
    \/ Len(s) = 1 /\ s[1] \in IsoDates
    \/ Len(s) = 2 /\ s[1] \in IsoDates /\ s[2] = "+00:00"

\* The try/except of extract_meta: the timestamp of the published text,
\* 0 when fromisoformat raises.
ParseTs(published) ==
    LET s == ReplaceZ(published)
    IN IF IsoParses(s) THEN EpochSeconds(s[1]) ELSE 0

\* ------------------------------------------------------------------------
\* build_indexes: extract_meta and the record built by load_episodes
\* ------------------------------------------------------------------------

\* A document (the text of one html file) is the record of what each
\* regular expression of the two programs finds in it:
\*   title   TITLE_RE      date    DATE_RE     desc   DESC_RE
\*   epnum   EP_NUM_RE     patreon PATREON_RE  h1     H1_RE
\*   mdesc   META_DESC_RE

\* ExtractTitle without the strip(): title_m.group(1).split("|")[0]
ExtractTitleUntrimmed(html) ==
    IF Matched(html.title) THEN SplitFirst(Group1(html.title))
    ELSE <<"Episode">>

ExtractTitle(html) ==
    IF Matched(html.title) THEN Strip(SplitFirst(Group1(html.title)))
    ELSE <<"Episode">>

extract_meta(html) ==
    LET published == IF Matched(html.date) THEN Group1(html.date) ELSE <<>>
    IN [ title          |-> ExtractTitle(html),
         published      |-> published,
         ts             |-> ParseTs(published),
         description    |-> IF Matched(html.desc) THEN Strip(Group1(html.desc))
                            ELSE <<>>,
         episode_number |-> IF Matched(html.epnum) THEN Group1(html.epnum)
                            ELSE <<>> ]

Access(html) == IF html.patreon THEN "patreon" ELSE "public"

\* The dict appended by load_episodes for the file slug.html
EpisodeB(slug, html) ==
    LET meta == extract_meta(html)
    IN [ title          |-> meta.title,
         published      |-> meta.published,
         ts             |-> meta.ts,
         description    |-> meta.description,
         episode_number |-> meta.episode_number,
         url            |-> <<"/", slug>>,
         access         |-> Access(html) ]

\* ------------------------------------------------------------------------
\* makeindex: extract_h1_title, extract_description, the record of main
\* ------------------------------------------------------------------------

Tags == {"<b>"}

\* TAG_RE.sub("", s)
RECURSIVE StripTags(_)
StripTags(s) ==
    IF s = <<>> THEN <<>>
    ELSE IF Head(s) \in Tags THEN StripTags(Tail(s))
    ELSE <<Head(s)>> \o StripTags(Tail(s))

\* html.unescape(s)
RECURSIVE Unescape(_)
Unescape(s) ==
    IF s = <<>> THEN <<>>
    ELSE <<IF Head(s) = "&amp;" THEN "&" ELSE Head(s)>> \o Unescape(Tail(s))

\* re.sub(r"\s+", " ", s)
RECURSIVE CollapseSpace(_)
CollapseSpace(s) ==
    IF s = <<>> THEN <<>>
    ELSE IF Head(s) \in Whitespace
         THEN <<" ">> \o CollapseSpace(LStrip(s))
         ELSE <<Head(s)>> \o CollapseSpace(Tail(s))

\* None is <<>>, the title t is <<t>>.
extract_h1_title(text) ==
    IF ~Matched(text.h1) THEN <<>>
    ELSE <<Unescape(Strip(StripTags(Group1(text.h1))))>>

\* None is <<>>, the description d is <<d>>.  The texts enumerated are
\* shorter than MAX_LEN, so the truncation branch is never taken.
extract_description(text) ==
    IF ~Matched(text.mdesc) THEN <<>>
    ELSE <<Strip(CollapseSpace(StripTags(Unescape(Group1(text.mdesc)))))>>

\* "not title" for the result of extract_h1_title: None or the empty string
Falsy(title) == title = <<>> \/ title[1] = <<>>

\* The dict appended by main for the file slug.html with st_mtime = mtime.
\* published is the local datetime of mtime, modelled by mtime itself.
EpisodeM(slug, text, mtime) ==
    [ slug        |-> slug,
      title       |-> extract_h1_title(text)[1],
      description |-> extract_description(text),
      published   |-> mtime ]

ARCHIVE_URL == "https://episodes.thestrategists.ca"

\* The (loc, lastmod) tuple appended to sitemap_urls for an episode
EpisodeUrlM(slug, mtime) ==
    [ loc |-> <<ARCHIVE_URL, "/", slug, ".html">>, lastmod |-> <<"mtime", ToString(mtime)>> ]

\* ------------------------------------------------------------------------
\* Sorting: list.sort(key=..., reverse=True) is a stable descending sort:
\* elements with equal keys keep the order they had in the list.
\* ------------------------------------------------------------------------

\* Position in the sorted list of the element at index i
Rank(keys, i) ==
    1 + Cardinality({ j \in 1..Len(keys) :
                        \/ keys[j] > keys[i]
                        \/ keys[j] = keys[i] /\ j < i })

SortDesc(s, keys) ==
    [ p \in 1..Len(s) |-> s[CHOOSE i \in 1..Len(s) : Rank(keys, i) = p] ]

\* SortByTs without reverse=True: episodes.sort(key=lambda e: e["ts"])
SortByTsAscending(episodes) ==
    SortDesc(episodes, [i \in 1..Len(episodes) |-> 0 - episodes[i].ts])

\* episodes.sort(key=lambda e: e["ts"], reverse=True)
SortByTs(episodes) ==
    SortDesc(episodes, [i \in 1..Len(episodes) |-> episodes[i].ts])

\* episodes.sort(key=lambda e: e["published"], reverse=True)
SortByPublished(episodes) ==
    SortDesc(episodes, [i \in 1..Len(episodes) |-> episodes[i].published])

\* ------------------------------------------------------------------------
\* Pagination
\* ------------------------------------------------------------------------

Min(a, b) == IF a < b THEN a ELSE b

\* CeilDiv with the division rounded down: n // per_page
FloorDiv(n, per_page) == n \div per_page

\* math.ceil(n / per_page)
CeilDiv(n, per_page) == (n + per_page - 1) \div per_page

\* PageSlice with the slice one record short: episodes[start:end - 1]
PageSliceShort(episodes, page, per_page) ==
    LET start == (page - 1) * per_page
        end   == start + per_page - 1
    IN SubSeq(episodes, Min(start, Len(episodes)) + 1, Min(end, Len(episodes)))

\* episodes[start:end] with start = (page - 1) * per_page, end = start + per_page
PageSlice(episodes, page, per_page) ==
    LET start == (page - 1) * per_page
        end   == start + per_page
    IN SubSeq(episodes, Min(start, Len(episodes)) + 1, Min(end, Len(episodes)))

\* ------------------------------------------------------------------------
\* render_index_page: the navigation of a listing page.  A link that is
\* not emitted is <<>>, a link to url is <<url>>.
\* ------------------------------------------------------------------------

PagePath(page) == <<"/page/", ToString(page), "/">>

\* PrevUrl without the special case of page 2
PrevUrlNumbered(page) == PagePath(page - 1)

PrevUrl(page) == IF page = 2 THEN <<"/">> ELSE PagePath(page - 1)

\* build_indexes.render_index_page
render_index_page_B(episodes, page, total_pages) ==
    [ episodes    |-> episodes,
      page        |-> page,
      total_pages |-> total_pages,
      canonical   |-> IF page = 1 THEN <<"/">> ELSE PagePath(page),
      prev_link   |-> IF page > 1 THEN <<PrevUrl(page)>> ELSE <<>>,
      next_link   |-> IF page < total_pages THEN <<PagePath(page + 1)>> ELSE <<>>,
      newer       |-> IF total_pages > 1 /\ page > 1 THEN <<PrevUrl(page)>> ELSE <<>>,
      older       |-> IF total_pages > 1 /\ page < total_pages
                      THEN <<PagePath(page + 1)>> ELSE <<>> ]

\* makeindex.render_index_page
render_index_page_M(episodes, page, total_pages) ==
    [ episodes    |-> episodes,
      page        |-> page,
      total_pages |-> total_pages,
      canonical   |-> <<ARCHIVE_URL>> \o (IF page = 1 THEN <<"/">> ELSE PagePath(page)),
      prev_link   |-> IF page > 1 THEN <<PrevUrl(page)>> ELSE <<>>,
      next_link   |-> IF page < total_pages THEN <<PagePath(page + 1)>> ELSE <<>>,
      rel_prev    |-> IF page > 1 THEN <<<<ARCHIVE_URL>> \o PrevUrl(page)>> ELSE <<>>,
      rel_next    |-> IF page < total_pages
                      THEN <<<<ARCHIVE_URL>> \o PagePath(page + 1)>> ELSE <<>> ]

\* ------------------------------------------------------------------------
\* build_indexes.write_sitemap: urls is a dict keyed by loc; assigning an
\* existing key replaces its value and keeps its position.
\* ------------------------------------------------------------------------

BASE == "https://episodes.thestrategists.ca"

add_url(urls, entry) ==
    IF \E i \in 1..Len(urls) : urls[i].loc = entry.loc
    THEN [ i \in 1..Len(urls) |-> IF urls[i].loc = entry.loc THEN entry ELSE urls[i] ]
    ELSE Append(urls, entry)

RECURSIVE AddAll(_, _)
AddAll(urls, entries) ==
    IF entries = <<>> THEN urls
    ELSE AddAll(add_url(urls, Head(entries)), Tail(entries))

HomeEntryB(episodes) ==
    [ loc     |-> <<BASE, "/">>,
      lastmod |-> IF episodes # <<>> /\ episodes[1].published # <<>>
                  THEN DatePart(episodes[1].published) ELSE <<>> ]

\* PageEntriesB with the loop started at page 1: range(1, total_pages + 1)
PageEntriesFromOne(total_pages) ==
    [ i \in 1..total_pages |->
        [ loc |-> <<BASE>> \o PagePath(i), lastmod |-> <<>> ] ]

PageEntriesB(total_pages) ==
    [ i \in 1..(IF total_pages >= 2 THEN total_pages - 1 ELSE 0) |->
        [ loc |-> <<BASE>> \o PagePath(i + 1), lastmod |-> <<>> ] ]

EpisodeEntriesB(episodes) ==
    [ i \in 1..Len(episodes) |->
        [ loc     |-> <<BASE>> \o episodes[i].url,
          lastmod |-> DatePart(episodes[i].published) ] ]

NewestEntryB == [ loc |-> <<BASE, "/newest/">>, lastmod |-> <<>> ]

\* The <url> elements of the sitemap.xml written by build_indexes
SitemapB(episodes, total_pages) ==
    AddAll(<<>>,
           <<HomeEntryB(episodes)>> \o PageEntriesB(total_pages)
             \o EpisodeEntriesB(episodes) \o <<NewestEntryB>>)

\* The (loc, lastmod) tuple appended to sitemap_urls by makeindex.main
\* after it has written listing page `page`
PageUrlM(page) ==
    [ loc     |-> <<ARCHIVE_URL>> \o (IF page = 1 THEN <<"/">> ELSE PagePath(page)),
      lastmod |-> <<"today">> ]

\* ------------------------------------------------------------------------
\* The html/ directory
\* ------------------------------------------------------------------------

\* Names (stems) of the episode files that may be in html/
Slugs == {"a", "b", "c"}

NoText ==
    [ title |-> <<>>, date |-> <<>>, desc |-> <<>>, epnum |-> <<>>,
      patreon |-> FALSE, h1 |-> <<>>, mdesc |-> <<>> ]

\* Episode documents the directory is populated with: a document with no
\* marker at all, dated documents (after, before and at the epoch), and a
\* document whose date does not parse.
SampleFiles ==
    { [ text |-> NoText, mtime |-> 1 ],
      [ text |-> [ NoText EXCEPT !.title = <<<<"Ep", " ", "12", " ", "|", " ", "The Strategists">>>>,
                                 !.date = <<<<"2024-06-01", "Z">>>>,
                                 !.desc = <<<<" ", "Summary">>>>,
                                 !.epnum = <<"12">>,
                                 !.patreon = TRUE,
                                 !.h1 = <<<<"<b>", "Ep", " ", "12", "<b>">>>>,
                                 !.mdesc = <<<<"Q", " ", "\n", "&amp;", " ", "A">>>> ],
          mtime |-> 2 ],
      [ text |-> [ NoText EXCEPT !.title = <<<<"Old">>>>,
                                 !.date = <<<<"1969-12-31", "Z">>>>,
                                 !.h1 = <<<<"Old">>>> ],
          mtime |-> 2 ],
      [ text |-> [ NoText EXCEPT !.date = <<<<"1970-01-01", "Z">>>>,
                                 !.h1 = <<<<"<b>", " ", "<b>">>>> ],
          mtime |-> 1 ],
      [ text |-> [ NoText EXCEPT !.title = <<<<"Ep", " ", "13">>>>,
                                 !.date = <<<<"June 1, 2024">>>>,
                                 !.h1 = <<<<"Ep", " ", "13">>>> ],
          mtime |-> 3 ] }

\* What the regular expressions find in the index.html written by
\* build_indexes.render_index_page for page 1
IndexTextB ==
    [ NoText EXCEPT !.title = <<<<"The Strategists", " ", "Podcast Transcripts">>>>,
                    !.h1 = <<<<"The Strategists">>>> ]

\* What they find in the index.html written by makeindex.render_index_page
IndexTextM ==
    [ NoText EXCEPT !.title = <<<<"Canadian Politics Podcast Transcripts", " ", "|",
                                 " ", "The Strategists">>>>,
                    !.h1 = <<<<"Canadian & Alberta Politics Podcast Transcripts">>>>,
                    !.mdesc = <<<<"Full transcripts of The Strategists">>>> ]

\* st_mtime of a file written by a run: later than that of every sample file
NowMtime ==
    LET latest == CHOOSE f \in SampleFiles : \A g \in SampleFiles : g.mtime <= f.mtime
    IN latest.mtime + 1

VARIABLES
    html,          \* html/*.html: stem -> [text, mtime]
    listing,       \* page number -> listing page on disk (html/index.html is page 1,
                   \*   html/page/N/index.html is page N)
    newest,        \* html/newest/index.html: <<>> or <<episode it was rendered from>>
    sitemap,       \* html/sitemap.xml: <<>> or <<sequence of its <url> entries>>
    prog,          \* the builder that runs or ran last: "none", "build_indexes", "makeindex"
    pc,            \* position of the running builder; "idle" between runs
    unread,        \* files of the glob the loop has not reached yet
    episodes,      \* the list `episodes`
    sitemap_urls,  \* the list `sitemap_urls` of makeindex.main
    total_pages,   \* the variable `total_pages`
    page,          \* the loop variable `page`
    exit,          \* outcome of the last run: "none", "ok", "fail"
    scanned,       \* history: stems of the files read (read_text) by this run, in order
    wrote,         \* history: paths written by this run
    runs,          \* history: number of runs started
    before,        \* history: html/ and the output files as they were when this run started
    prev,          \* history: <<>> or <<summary of the previous successful run>>
    changed,       \* history: an episode file was removed since the last run ended
    arg,           \* argument of the function applied on its own (SpecMeta, SpecNav)
    result         \* <<>> or <<what the function returned>>

vars == << html, listing, newest, sitemap, prog, pc, unread, episodes, sitemap_urls,
           total_pages, page, exit, scanned, wrote, runs, before, prev, changed,
           arg, result >>

\* Variables the builders never touch
unit == << arg, result >>

outputs == << listing, newest, sitemap >>
locals == << unread, episodes, sitemap_urls, total_pages, page >>

\* No builder has run yet on the directory dir
InitRun(dir) ==
    /\ html = dir
    /\ listing = <<>>
    /\ newest = <<>>
    /\ sitemap = <<>>
    /\ prog = "none"
    /\ pc = "idle"
    /\ unread = {}
    /\ episodes = <<>>
    /\ sitemap_urls = <<>>
    /\ total_pages = 0
    /\ page = 0
    /\ exit = "none"
    /\ scanned = <<>>
    /\ wrote = {}
    /\ runs = 0
    /\ prev = <<>>
    /\ changed = FALSE
    /\ before = << html, listing, newest, sitemap >>

Init ==
    /\ \E present \in SUBSET Slugs : \E dir \in [present -> SampleFiles] : InitRun(dir)
    /\ arg = <<>>
    /\ result = <<>>

\* Writing `content` to the file `key` of a directory `dir`
WriteFile(dir, key, content) ==
    [ k \in DOMAIN dir \cup {key} |-> IF k = key THEN content ELSE dir[k] ]

\* What a finished run leaves in `prev`; changed tells whether an episode
\* file was removed between that run and the next one
RunSummary ==
    [ prog |-> prog, episodes |-> episodes, total_pages |-> total_pages,
      pages |-> [ p \in 1..total_pages |-> listing[p].episodes ],
      changed |-> changed ]

\* A builder is started on the directory as it is.
StartRun(which) ==
    /\ pc = "idle"
    /\ runs < MaxRuns
    /\ prog' = which
    /\ pc' = "load"
    /\ unread' = DOMAIN html
    /\ episodes' = <<>>
    /\ sitemap_urls' = <<>>
    /\ total_pages' = 0
    /\ page' = 0
    /\ exit' = "none"
    /\ scanned' = <<>>
    /\ wrote' = {}
    /\ runs' = runs + 1
    /\ prev' = IF exit = "ok" THEN <<RunSummary>> ELSE <<>>
    /\ changed' = FALSE
    /\ before' = << html, listing, newest, sitemap >>
    /\ UNCHANGED << html, outputs, unit >>

\* Between two runs an episode file is removed from html/.
RemoveDoc ==
    /\ pc = "idle"
    /\ runs >= 1
    /\ runs < MaxRuns
    /\ \E s \in DOMAIN html \cap Slugs :
         html' = [ k \in DOMAIN html \ {s} |-> html[k] ]
    /\ changed' = TRUE
    /\ UNCHANGED << unit, before, outputs, prog, pc, locals, exit, scanned, wrote, runs, prev >>

\* Path below html/ of listing page n
PageFile(n) ==
    IF n = 1 THEN <<"index.html">> ELSE <<"page/", ToString(n), "/index.html">>

\* ------------------------------------------------------------------------
\* build_indexes.main
\* ------------------------------------------------------------------------

\* load_episodes, one iteration of the loop over EPISODES_DIR.glob("*.html").
\* The order of the glob is the order of the directory listing, which the
\* file system chooses.
B_ReadDoc ==
    /\ prog = "build_indexes"
    /\ pc = "load"
    /\ \E s \in unread :
         /\ episodes' = Append(episodes, EpisodeB(s, html[s].text))
         /\ scanned' = Append(scanned, s)
         /\ unread' = unread \ {s}
    /\ UNCHANGED << unit, before, html, outputs, prog, pc, sitemap_urls, total_pages, page,
                    exit, wrote, runs, prev, changed >>

\* B_Sort with the sort and the return inside the loop: the list is sorted
\* and returned while files of the glob are still unread
B_SortInsideLoop ==
    /\ prog = "build_indexes"
    /\ pc = "load"
    /\ episodes # <<>>
    /\ episodes' = SortByTs(episodes)
    /\ pc' = "check"
    /\ UNCHANGED << unit, before, html, outputs, prog, unread, sitemap_urls, total_pages, page,
                    exit, scanned, wrote, runs, prev, changed >>

\* load_episodes, after the loop: the sort and the return
B_Sort ==
    /\ prog = "build_indexes"
    /\ pc = "load"
    /\ unread = {}
    /\ episodes' = SortByTs(episodes)
    /\ pc' = "check"
    /\ UNCHANGED << unit, before, html, outputs, prog, unread, sitemap_urls, total_pages, page,
                    exit, scanned, wrote, runs, prev, changed >>

\* NoEpisodes with the test dropped: the run goes on with an empty list
NeverEmpty(eps) == FALSE

\* "not episodes"
NoEpisodes(eps) == Len(eps) = 0

\* raise SystemExit("No episodes found")
B_NoEpisodes ==
    /\ prog = "build_indexes"
    /\ pc = "check"
    /\ NoEpisodes(episodes)
    /\ pc' = "idle"
    /\ exit' = "fail"
    /\ UNCHANGED << unit, before, html, outputs, prog, locals, scanned, wrote, runs, prev, changed >>

B_TotalPages ==
    /\ prog = "build_indexes"
    /\ pc = "check"
    /\ ~NoEpisodes(episodes)
    /\ total_pages' = CeilDiv(Len(episodes), PerPageB)
    /\ page' = 1
    /\ pc' = "pages"
    /\ UNCHANGED << unit, before, html, outputs, prog, unread, episodes, sitemap_urls,
                    exit, scanned, wrote, runs, prev, changed >>

\* One iteration of "for page in range(1, total_pages + 1)"
B_WritePage ==
    /\ prog = "build_indexes"
    /\ pc = "pages"
    /\ page <= total_pages
    /\ listing' = WriteFile(listing, page,
                    render_index_page_B(PageSlice(episodes, page, PerPageB),
                                        page, total_pages))
    /\ html' = IF page = 1
               THEN WriteFile(html, "index", [ text |-> IndexTextB, mtime |-> NowMtime ])
               ELSE html
    /\ wrote' = wrote \cup {PageFile(page)}
    /\ page' = page + 1
    /\ UNCHANGED << unit, before, newest, sitemap, prog, pc, unread, episodes, sitemap_urls,
                    total_pages, exit, scanned, runs, prev, changed >>

\* After the loop: html/newest/index.html from render_newest_page(episodes[0])
B_WriteNewest ==
    /\ prog = "build_indexes"
    /\ pc = "pages"
    /\ page > total_pages
    /\ newest' = <<episodes[1]>>
    /\ wrote' = wrote \cup {<<"newest/index.html">>}
    /\ pc' = "sitemap"
    /\ UNCHANGED << unit, before, html, listing, sitemap, prog, locals, exit, scanned, runs,
                    prev, changed >>

\* write_sitemap(episodes, total_pages), then the run ends
B_WriteSitemap ==
    /\ prog = "build_indexes"
    /\ pc = "sitemap"
    /\ sitemap' = <<SitemapB(episodes, total_pages)>>
    /\ wrote' = wrote \cup {<<"sitemap.xml">>}
    /\ pc' = "idle"
    /\ exit' = "ok"
    /\ UNCHANGED << unit, before, html, listing, newest, prog, locals, scanned, runs, prev, changed >>

\* ------------------------------------------------------------------------
\* makeindex.main
\* ------------------------------------------------------------------------

\* One iteration of the loop over HTML_DIR.glob("*.html")
M_ScanDoc ==
    /\ prog = "makeindex"
    /\ pc = "load"
    /\ \E s \in unread :
         /\ unread' = unread \ {s}
         /\ IF s = "index"
            THEN UNCHANGED << episodes, sitemap_urls, scanned >>
            ELSE /\ scanned' = Append(scanned, s)
                 /\ IF Falsy(extract_h1_title(html[s].text))
                    THEN UNCHANGED << episodes, sitemap_urls >>
                    ELSE /\ episodes' = Append(episodes,
                                          EpisodeM(s, html[s].text, html[s].mtime))
                         /\ sitemap_urls' = Append(sitemap_urls,
                                              EpisodeUrlM(s, html[s].mtime))
    /\ UNCHANGED << unit, before, html, outputs, prog, pc, total_pages, page, exit, wrote,
                    runs, prev, changed >>

\* After the loop: the sort and the page count
M_Sort ==
    /\ prog = "makeindex"
    /\ pc = "load"
    /\ unread = {}
    /\ episodes' = SortByPublished(episodes)
    /\ total_pages' = CeilDiv(Len(episodes), PerPageM)
    /\ page' = 1
    /\ pc' = "pages"
    /\ UNCHANGED << unit, before, html, outputs, prog, unread, sitemap_urls, exit, scanned,
                    wrote, runs, prev, changed >>

\* One iteration of "for page in range(1, total_pages + 1)"
M_WritePage ==
    /\ prog = "makeindex"
    /\ pc = "pages"
    /\ page <= total_pages
    /\ listing' = WriteFile(listing, page,
                    render_index_page_M(PageSlice(episodes, page, PerPageM),
                                        page, total_pages))
    /\ html' = IF page = 1
               THEN WriteFile(html, "index", [ text |-> IndexTextM, mtime |-> NowMtime ])
               ELSE html
    /\ sitemap_urls' = Append(sitemap_urls, PageUrlM(page))
    /\ wrote' = wrote \cup {PageFile(page)}
    /\ page' = page + 1
    /\ UNCHANGED << unit, before, newest, sitemap, prog, pc, unread, episodes, total_pages,
                    exit, scanned, runs, prev, changed >>

\* write_sitemap(sitemap_urls), then the run ends
M_WriteSitemap ==
    /\ prog = "makeindex"
    /\ pc = "pages"
    /\ page > total_pages
    /\ sitemap' = <<sitemap_urls>>
    /\ wrote' = wrote \cup {<<"sitemap.xml">>}
    /\ pc' = "idle"
    /\ exit' = "ok"
    /\ UNCHANGED << unit, before, html, listing, newest, prog, locals, scanned, runs, prev, changed >>

B_Start == StartRun("build_indexes")

M_Start == StartRun("makeindex")

Next ==
    \/ B_Start
    \/ B_ReadDoc
    \/ B_Sort
    \/ B_NoEpisodes
    \/ B_TotalPages
    \/ B_WritePage
    \/ B_WriteNewest
    \/ B_WriteSitemap
    \/ M_Start
    \/ M_ScanDoc
    \/ M_Sort
    \/ M_WritePage
    \/ M_WriteSitemap
    \/ RemoveDoc

Spec == Init /\ [][Next]_vars

\* ------------------------------------------------------------------------
\* extract_meta and load_episodes on one document (SpecMeta)
\* ------------------------------------------------------------------------

\* Tokens of the enumerated <title> contents
TitleTokens == {" ", "\n", "|", "Ep"}

ExampleTitle == <<"Ep", " ", "12", " ", "|", " ", "The Strategists">>

TitleTexts ==
    UNION { [1..n -> TitleTokens] : n \in 0..MaxTitleLen } \cup {ExampleTitle}

\* Documents: every combination of what the five regular expressions of
\* build_indexes find
MetaDocs ==
    { [ NoText EXCEPT !.title = t, !.date = d, !.desc = ds, !.epnum = n, !.patreon = p ] :
        t \in {<<>>} \cup { <<x>> : x \in TitleTexts },
        d \in { <<>>, <<<<"2024-06-01", "Z">>>>, <<<<"1969-12-31", "+00:00">>>>,
                <<<<"June 1, 2024">>>> },
        ds \in { <<>>, <<<<" ", "Summary", " ">>>> },
        n \in { <<>>, <<"12">> },
        p \in BOOLEAN }

InitMeta ==
    /\ InitRun(<<>>)
    /\ arg \in [ fn : {"load_episodes"}, slug : {"a"}, html : MetaDocs ]
    /\ result = <<>>

\* The body of the loop of load_episodes for the document arg.html
LoadOne ==
    /\ arg.fn = "load_episodes"
    /\ result = <<>>
    /\ result' = <<EpisodeB(arg.slug, arg.html)>>
    /\ UNCHANGED << html, outputs, prog, pc, locals, exit, scanned, wrote, runs,
                    before, prev, changed, arg >>

NextMeta == LoadOne

SpecMeta == InitMeta /\ [][NextMeta]_vars

\* ------------------------------------------------------------------------
\* render_index_page on one page number (SpecNav)
\* ------------------------------------------------------------------------

InitNav ==
    /\ InitRun(<<>>)
    /\ arg \in { a \in [ fn : {"build_indexes", "makeindex"},
                         page : 1..MaxPages, total_pages : 1..MaxPages ] :
                 a.page <= a.total_pages }
    /\ result = <<>>

RenderB ==
    /\ arg.fn = "build_indexes"
    /\ result = <<>>
    /\ result' = <<render_index_page_B(<<>>, arg.page, arg.total_pages)>>
    /\ UNCHANGED << html, outputs, prog, pc, locals, exit, scanned, wrote, runs,
                    before, prev, changed, arg >>

RenderM ==
    /\ arg.fn = "makeindex"
    /\ result = <<>>
    /\ result' = <<render_index_page_M(<<>>, arg.page, arg.total_pages)>>
    /\ UNCHANGED << html, outputs, prog, pc, locals, exit, scanned, wrote, runs,
                    before, prev, changed, arg >>

NextNav == RenderB \/ RenderM

SpecNav == InitNav /\ [][NextNav]_vars

\* ------------------------------------------------------------------------
\* Properties
\* ------------------------------------------------------------------------

\* Page size of the builder that runs
PerPageOf(which) == IF which = "build_indexes" THEN PerPageB ELSE PerPageM

\* The run has computed total_pages and is writing, or has written, its pages
Paginating ==
    /\ prog # "none"
    /\ \/ pc \in {"pages", "sitemap"}
       \/ pc = "idle" /\ exit = "ok"

\* Number of listing pages this run has written so far
PagesWritten == IF pc = "pages" THEN page - 1 ELSE total_pages

\* The slices handed to render_index_page for pages 1..n, concatenated
RECURSIVE ConcatPages(_)
ConcatPages(n) ==
    IF n = 0 THEN <<>> ELSE ConcatPages(n - 1) \o listing[n].episodes

\* C1: the slices main() hands to render_index_page for pages 1..p,
\* concatenated in page order, are the first records of the sorted catalog
\* in catalog order, and for p = total_pages they are the whole catalog:
\* no record dropped, duplicated or reordered.
C1_PagesPartitionCatalog ==
    Paginating =>
      LET w == PagesWritten
          k == PerPageOf(prog)
      IN /\ ConcatPages(w) = SubSeq(episodes, 1, Min(w * k, Len(episodes)))
         /\ w = total_pages => ConcatPages(w) = episodes

\* A finished run with a full first page and a partial last page
C1_Witness ==
    /\ pc = "idle"
    /\ exit = "ok"
    /\ total_pages >= 2
    /\ Len(listing[total_pages].episodes) < Len(listing[1].episodes)
    /\ ConcatPages(total_pages) = episodes

\* C2: for N >= 1 episodes and page size k, main() renders exactly
\* ceil(N/k) listing pages; every page but the last holds k records and
\* the last holds between 1 and k.
C2_PageCount ==
    (Paginating /\ Len(episodes) >= 1) =>
      LET k == PerPageOf(prog)
          n == Len(episodes)
      IN /\ total_pages * k >= n
         /\ (total_pages - 1) * k < n
         /\ \A p \in 1..PagesWritten :
              /\ p < total_pages => Len(listing[p].episodes) = k
              /\ p = total_pages => Len(listing[p].episodes) \in 1..k
         /\ { f \in wrote : f \notin {<<"newest/index.html">>, <<"sitemap.xml">>} }
              = { PageFile(p) : p \in 1..PagesWritten }

\* A finished run over three or more episodes: two or more pages
C2_Witness ==
    /\ pc = "idle"
    /\ exit = "ok"
    /\ Len(episodes) >= 3
    /\ total_pages >= 2
    /\ PagesWritten = total_pages

\* The sort of this run is done
Sorted == prog # "none" /\ pc # "load"

\* Stem of the file a catalog record was built from
SlugOf(e) == IF prog = "build_indexes" THEN e.url[2] ELSE e.slug

\* Sort key of a catalog record
KeyOf(e) == IF prog = "build_indexes" THEN e.ts ELSE e.published

\* Alphabetical position of a file stem
SlugOrder(s) ==
    CASE s = "a" -> 1 [] s = "b" -> 2 [] s = "c" -> 3 [] s = "index" -> 4

\* C3: the catalog is sorted by timestamp descending and records of equal
\* timestamp are in ascending slug order, whatever order the directory scan
\* returned the documents in.
C3_SortedWithSlugTieBreak ==
    Sorted =>
      \A i, j \in 1..Len(episodes) :
        i < j =>
          \/ KeyOf(episodes[i]) > KeyOf(episodes[j])
          \/ /\ KeyOf(episodes[i]) = KeyOf(episodes[j])
             /\ SlugOrder(SlugOf(episodes[i])) < SlugOrder(SlugOf(episodes[j]))

\* The published text of a record of build_indexes parsed to a real instant
RealDate(e) == IsoParses(ReplaceZ(e.published))

\* C4: in build_indexes every record without a parsable date has ts = 0 and
\* stands, in the sorted catalog, after every record whose date parsed to a
\* real instant (instants before and at the epoch included).
C4_UndatedSortLast ==
    (Sorted /\ prog = "build_indexes") =>
      \A i, j \in 1..Len(episodes) :
        (~RealDate(episodes[i]) /\ RealDate(episodes[j])) =>
          (episodes[i].ts = 0 /\ j < i)

\* The run ended with exit status 0
FinishedOk == prog # "none" /\ pc = "idle" /\ exit = "ok"

\* The <loc> values of the sitemap on disk are pairwise different
DistinctLocs ==
    \A i, j \in 1..Len(sitemap[1]) :
      sitemap[1][i].loc = sitemap[1][j].loc => i = j

\* C6 as stated: after a successful run the sitemap holds exactly
\* 1 + (total_pages - 1) + episodeCount entries, with no <loc> repeated.
C6_SitemapCountAsStated ==
    FinishedOk =>
      /\ Len(sitemap[1]) = 1 + (total_pages - 1) + Len(episodes)
      /\ DistinctLocs

\* C6 amended: the sitemap of makeindex holds exactly
\* 1 + (total_pages - 1) + episodeCount entries; the sitemap of
\* build_indexes holds one more, the /newest/ URL; no <loc> is repeated.
C6_SitemapCount ==
    FinishedOk =>
      /\ Len(sitemap[1]) = 1 + (total_pages - 1) + Len(episodes)
                             + (IF prog = "build_indexes" THEN 1 ELSE 0)
      /\ prog = "build_indexes" =>
           sitemap[1][Len(sitemap[1])].loc = <<BASE, "/newest/">>
      /\ DistinctLocs

\* A successful run of build_indexes with two or more pages has written
\* its sitemap
C6_Witness ==
    /\ FinishedOk
    /\ prog = "build_indexes"
    /\ total_pages >= 2
    /\ <<"sitemap.xml">> \in wrote
    /\ Len(sitemap[1]) = total_pages + Len(episodes) + 1

\* C7: a second run of the same builder, with no episode document changed
\* since the first, never reads a file the first run wrote, and ends with
\* the same catalog, the same page count and the same page partition.
C7_RerunIsStable ==
    (prog # "none" /\ prev # <<>> /\ prev[1].prog = prog /\ ~prev[1].changed) =>
      /\ \A i \in 1..Len(scanned) : scanned[i] \in Slugs
      /\ FinishedOk =>
           /\ episodes = prev[1].episodes
           /\ total_pages = prev[1].total_pages
           /\ [ p \in 1..total_pages |-> listing[p].episodes ] = prev[1].pages

\* C8: when build_indexes finds no episode, the run ends with a non-zero
\* exit and html/, the listing pages, /newest and the sitemap are as they
\* were when the run started.
C8_NoEpisodesNoOutput ==
    (prog = "build_indexes" /\ pc \notin {"load", "check"} /\ Len(episodes) = 0) =>
      /\ pc = "idle"
      /\ exit = "fail"
      /\ wrote = {}
      /\ << html, listing, newest, sitemap >> = before

\* A run of build_indexes over a directory without episodes has ended,
\* with a sitemap of an earlier run on disk
C8_Witness ==
    /\ prog = "build_indexes"
    /\ pc = "idle"
    /\ exit = "fail"
    /\ scanned = <<>>
    /\ sitemap # <<>>

\* C9: every document the scan reads yields exactly one record, so the
\* catalog is as long as the list of documents read; in build_indexes a
\* document without a title marker gets the title "Episode".
C9_EveryDocumentYieldsARecord ==
    Sorted =>
      /\ Len(episodes) = Len(scanned)
      /\ prog = "build_indexes" =>
           \A s \in DOMAIN before[1] :
             ~Matched(before[1][s].text.title) =>
               \E i \in 1..Len(episodes) :
                 /\ episodes[i].url = <<"/", s>>
                 /\ episodes[i].title = <<"Episode">>

\* C5: for 1 <= p <= total_pages, render_index_page emits a previous link
\* iff p > 1, to "/" when p = 2 and to "/page/(p-1)/" when p > 2, and a next
\* link iff p < total_pages, to "/page/(p+1)/".
C5_PrevNextLinks ==
    result # <<>> =>
      LET p == arg.page
          t == arg.total_pages
          r == result[1]
          prevTarget == IF p = 2 THEN <<"/">> ELSE <<"/page/", ToString(p - 1), "/">>
          nextTarget == <<"/page/", ToString(p + 1), "/">>
      IN /\ (r.prev_link # <<>>) <=> (p > 1)
         /\ p > 1 => r.prev_link = <<prevTarget>>
         /\ (r.next_link # <<>>) <=> (p < t)
         /\ p < t => r.next_link = <<nextTarget>>
         /\ arg.fn = "build_indexes" =>
              /\ r.newer = r.prev_link
              /\ r.older = r.next_link
         /\ arg.fn = "makeindex" =>
              /\ r.rel_prev = (IF p > 1 THEN <<<<ARCHIVE_URL>> \o prevTarget>> ELSE <<>>)
              /\ r.rel_next = (IF p < t THEN <<<<ARCHIVE_URL>> \o nextTarget>> ELSE <<>>)

\* Page 2 of a catalog of three or more pages has been rendered: a previous
\* link to the home path and a next link
C5_Witness ==
    /\ result # <<>>
    /\ arg.page = 2
    /\ arg.total_pages > 2
    /\ result[1].prev_link = <<<<"/">>>>
    /\ result[1].next_link # <<>>

\* The document has a title marker and nothing else
OnlyTitle(h) ==
    /\ Matched(h.title)
    /\ h.date = <<>> /\ h.desc = <<>> /\ h.epnum = <<>> /\ ~h.patreon

\* Every field but the title is at its fallback value
Fallbacks(r) ==
    /\ r.published = <<>>
    /\ r.ts = 0
    /\ r.description = <<>>
    /\ r.episode_number = <<>>
    /\ r.access = "public"

\* t is the text of raw before the first separator, without the whitespace
\* around it
TrimmedBeforeSep(raw, t) ==
    \E i \in 0..Len(raw) : \E j \in i..Len(raw) : \E m \in j..Len(raw) :
      /\ t = SubSeq(raw, i + 1, j)
      /\ \A k \in 1..i : raw[k] \in Whitespace
      /\ \A k \in (j + 1)..m : raw[k] \in Whitespace
      /\ m = Len(raw) \/ raw[m + 1] = Sep
      /\ \A k \in 1..Len(t) : t[k] # Sep
      /\ t # <<>> => (t[1] \notin Whitespace /\ t[Len(t)] \notin Whitespace)

\* C10: for a document whose only recoverable field is a title marker,
\* extract_meta returns the title text before the separator, trimmed
\* ("Ep 12 | The Strategists" gives "Ep 12"), and every other field at its
\* fallback; for an empty document it returns the title "Episode" with the
\* same fallbacks.
C10_TitleOnlyAndEmptyDocument ==
    result # <<>> =>
      LET h == arg.html
          r == result[1]
      IN /\ OnlyTitle(h) =>
              /\ TrimmedBeforeSep(Group1(h.title), r.title)
              /\ Fallbacks(r)
         /\ (OnlyTitle(h) /\ Group1(h.title) = ExampleTitle) =>
              r.title = <<"Ep", " ", "12">>
         /\ h = NoText =>
              /\ r.title = <<"Episode">>
              /\ Fallbacks(r)

\* The example document has been through extract_meta
C10_Witness ==
    /\ result # <<>>
    /\ OnlyTitle(arg.html)
    /\ Group1(arg.html.title) = ExampleTitle
    /\ result[1].title = <<"Ep", " ", "12">>

\* The files this run reads: the glob of html/ as it was when the run
\* started, without index.html for makeindex
ToRead ==
    IF prog = "makeindex" THEN DOMAIN before[1] \ {"index"} ELSE DOMAIN before[1]

\* The sort is done, the page count is computed or an output file is
\* written by this run
PastLoading ==
    /\ prog # "none"
    /\ \/ pc \in {"check", "pages", "sitemap"}
       \/ total_pages # 0
       \/ wrote # {}
       \/ << html, listing, newest, sitemap >> # before

\* C11: within one run the sort, the page count and every write of a
\* listing page or of the sitemap come only after every source document of
\* the run has been read: nothing is written while a document is unread.
C11_OutputOnlyAfterAllRead ==
    PastLoading =>
      /\ unread = {}
      /\ { scanned[i] : i \in 1..Len(scanned) } = ToRead
      /\ Len(scanned) = Cardinality(ToRead)

\* The second listing page is being written after three documents were read
C11_Witness ==
    /\ pc = "pages"
    /\ page = 2
    /\ PageFile(1) \in wrote
    /\ Len(scanned) = 3
    /\ unread = {}

\* The <loc> values of the sitemap on disk, the /newest/ entry of
\* build_indexes left out
RECURSIVE LocsOf(_)
LocsOf(urls) ==
    IF urls = <<>> THEN <<>>
    ELSE (IF Head(urls).loc = <<BASE, "/newest/">> THEN <<>> ELSE <<Head(urls).loc>>)
         \o LocsOf(Tail(urls))

\* The URL of a catalog record in the sitemap of the builder that ran
EpisodeLoc(e) ==
    IF prog = "build_indexes" THEN <<BASE>> \o e.url
    ELSE <<ARCHIVE_URL, "/", e.slug, ".html">>

\* C12: the sitemap lists the home URL first, then the URLs of pages
\* 2..total_pages in ascending order, then the episode URLs in catalog
\* order, whatever order the directory scan returned the documents in
\* (stated for a catalog of one episode or more).
C12_SitemapOrder ==
    (FinishedOk /\ Len(episodes) >= 1) =>
      LocsOf(sitemap[1]) =
        <<<<BASE, "/">>>>
        \o [ i \in 1..(IF total_pages >= 2 THEN total_pages - 1 ELSE 0) |->
               <<BASE, "/page/", ToString(i + 1), "/">> ]
        \o [ i \in 1..Len(episodes) |-> EpisodeLoc(episodes[i]) ]

\* C13: when makeindex finds no episode, the run either writes nothing or
\* writes the home listing page together with a sitemap that lists the home
\* URL; it never writes a sitemap without the home listing page.
C13_EmptyCatalogConsistent ==
    (prog = "makeindex" /\ pc = "idle" /\ exit = "ok" /\ Len(episodes) = 0) =>
      \/ wrote = {}
      \/ /\ PageFile(1) \in wrote
         /\ <<"sitemap.xml">> \in wrote
         /\ \E i \in 1..Len(sitemap[1]) : sitemap[1][i].loc = <<ARCHIVE_URL, "/">>

\* C14: after a successful build the listing pages on disk are exactly
\* pages 1..total_pages of that build, also when an earlier build over a
\* larger episode set wrote more pages (stated for a build of one page or
\* more).
C14_NoStalePages ==
    (FinishedOk /\ total_pages >= 1) => DOMAIN listing = 1..total_pages

\* C15: the /newest page of a successful run of build_indexes is rendered
\* from the first record of the sorted catalog; that record has the largest
\* timestamp of all records and is the first record of listing page 1.
C15_NewestIsFirstRecord ==
    (prog = "build_indexes" /\ (pc = "sitemap" \/ FinishedOk)) =>
      /\ newest = <<episodes[1]>>
      /\ \A i \in 1..Len(episodes) : episodes[i].ts <= newest[1].ts
      /\ listing[1].episodes[1] = newest[1]

\* A successful run of build_indexes whose newest record was not the first
\* one read
C15_Witness ==
    /\ FinishedOk
    /\ prog = "build_indexes"
    /\ Len(episodes) >= 2
    /\ episodes[1].ts > episodes[2].ts
    /\ episodes[1].url # <<"/", scanned[1]>>
    /\ newest = <<episodes[1]>>

====
